---- MODULE Spec2Model ----
(***************************************************************************)
(* A model of main.py of the BTU dashboard scraper: the HTML parsers       *)
(* (parse_num, parse_courses, parse_scores, parse_files) as operators over *)
(* abstract documents, and fetch_course_pages together with                *)
(* parse_course_data_from_folder as a state machine over the on-disk       *)
(* store of fetched pages.                                                 *)
(*                                                                         *)
(* Text is a sequence of one-character strings, so that strip(), lower()   *)
(* and replace() are computed rather than assumed.  An optional value is a *)
(* sequence of length 0 (None) or 1.                                       *)
(***************************************************************************)
EXTENDS Integers, Sequences, FiniteSets, TLC

VARIABLES
    num_in, num_out,          \* parse_num: argument, result
    courses_in, courses_out,  \* parse_courses: document, result
    scores_in, scores_out,    \* parse_scores: document, result
    files_in, files_out,      \* parse_files: (document, my_lector), result
    disk,                     \* the files under html/ and courses/: the page each holds
    cur,                      \* the course of the call in progress or last made
    pc,                       \* position in fetch_course_pages / parse_course_data_from_folder
    urls,                     \* the keys of extract_course_urls, in dict order
    idx,                      \* position of the loop over urls.items()
    data,                     \* the dict built by parse_course_data_from_folder
    runs,                     \* number of fetch_course_pages calls made so far
    outcome,                  \* what the call did for each key of urls
    fetched                   \* how often the call fetched each key's URL

vars == <<num_in, num_out, courses_in, courses_out, scores_in, scores_out,
          files_in, files_out, disk, cur, pc, urls, idx, data, runs,
          outcome, fetched>>

----------------------------------------------------------------------------
(* Bounds of the model. *)

\* longest argument of parse_num
MaxNumLen == 3
\* most rows of a course table
MaxCourseRows == 3
\* longest component label, in tokens
MaxCompLen == 3
\* most rows of a scores table
MaxScoreRows == 1
\* most rows of a files table
MaxFileRows == 4
\* most calls of fetch_course_pages
MaxRuns == 2

----------------------------------------------------------------------------
(* Optional values and text. *)

None == <<>>
Some(x) == <<x>>
IsNone(o) == Len(o) = 0
Get(o) == o[1]

\* the value of a variable that the specification at hand does not use
Idle == [tag |-> "idle"]

\* all sequences over S of length at most n
SeqUpTo(S, n) == UNION {[1..k -> S] : k \in 0..n}

RECURSIVE LStrip(_)
LStrip(s) == IF s # <<>> /\ Head(s) = " " THEN LStrip(Tail(s)) ELSE s

RECURSIVE RStrip(_)
RStrip(s) ==
    IF s # <<>> /\ s[Len(s)] = " " THEN RStrip(SubSeq(s, 1, Len(s) - 1)) ELSE s

\* str.strip(), and get_text(strip=True) of an element holding one string
Strip(s) == RStrip(LStrip(s))

\* str.replace(",", ".")
CommaToPeriod(s) == [i \in 1..Len(s) |-> IF s[i] = "," THEN "." ELSE s[i]]

LowerChar(c) == CASE c = "A" -> "a" [] c = "B" -> "b" [] OTHER -> c

\* str.lower()
Lower(s) == [i \in 1..Len(s) |-> LowerChar(s[i])]

Digits == {"5", "7"}

DigitVal(c) == IF c = "5" THEN 5 ELSE 7

RECURSIVE IntVal(_)
IntVal(ds) ==
    IF ds = <<>> THEN 0
    ELSE 10 * IntVal(SubSeq(ds, 1, Len(ds) - 1)) + DigitVal(ds[Len(ds)])

Count(s, c) == Cardinality({i \in 1..Len(s) : s[i] = c})

\* float(txt) succeeds: digits with at most one period and at least one digit
\* (the alphabets hold no sign, exponent, underscore, "inf" or "nan")
FloatParses(txt) ==
    /\ \A i \in 1..Len(txt) : txt[i] \in Digits \cup {"."}
    /\ Count(txt, ".") <= 1
    /\ \E i \in 1..Len(txt) : txt[i] \in Digits

\* float(txt) as whole part and fraction digits (no digit of the alphabets is 0,
\* so different digit strings are different numbers)
FloatOf(txt) ==
    LET dot == IF \E i \in 1..Len(txt) : txt[i] = "."
               THEN CHOOSE i \in 1..Len(txt) : txt[i] = "."
               ELSE Len(txt) + 1
    IN  [whole |-> IntVal(SubSeq(txt, 1, dot - 1)),
         frac  |-> SubSeq(txt, dot + 1, Len(txt))]

----------------------------------------------------------------------------
(* parse_num *)

NumNone == [tag |-> "None", num |-> FloatOf(<<>>), str |-> <<>>]
NumFloat(txt) == [tag |-> "float", num |-> FloatOf(txt), str |-> <<>>]
NumStr(s) == [tag |-> "str", num |-> FloatOf(<<>>), str |-> s]

parse_num(td_text) ==
    IF IsNone(td_text) THEN NumNone
    ELSE LET txt == CommaToPeriod(Strip(Get(td_text)))
         IN  IF FloatParses(txt) THEN NumFloat(txt) ELSE NumStr(Strip(txt))

NumChars == {" ", ",", ".", "5", "x"}

NumInputs == {None} \cup {Some(s) : s \in SeqUpTo(NumChars, MaxNumLen)}

----------------------------------------------------------------------------
(* parse_courses *)

\* a <td>: its own text and the anchor inside it, if any
Cell(text, a) == [text |-> text, a |-> a]
\* an <a>: its text and its href attribute, if any
Anchor(text, href) == [text |-> text, href |-> href]

\* element.get_text(strip=True)
GetText(td) ==
    Strip(td.text \o (IF IsNone(td.a) THEN <<>> ELSE Get(td.a).text))

\* a URL: whether it names a host (urlparse(url).netloc), and its path
Url(netloc, path) == [netloc |-> netloc, path |-> path]

EmptyHref == Url(FALSE, "")
RelHref == Url(FALSE, "/c/1")
AbsHref == Url(TRUE, "/c/1")

\* bool(url) of a str
Truthy(url) == url # EmptyHref

\* urllib.parse.urlparse(url).netloc is not empty
HasNetloc(url) == url.netloc

\* urllib.parse.urljoin(BASE_URL, url): a URL that names a host is kept, any
\* other is resolved against the portal's host
UrlJoin(url) == Url(TRUE, url.path)

\* IsTotalRow without its test of the first cell
IsTotalRowAnyFirstCell(tds) == Len(tds) = 2

\* line 112: the row that carries the credit total
IsTotalRow(tds) == Len(tds) = 2 /\ GetText(tds[1]) = <<>>

\* lines 117-124: the course of a six-cell row
CourseOfRow(tds) ==
    LET name_a == tds[3].a
        href   == IF ~IsNone(name_a) THEN Get(name_a).href ELSE None
    IN  [name  |-> IF ~IsNone(name_a) THEN Strip(Get(name_a).text)
                   ELSE GetText(tds[3]),
         grade |-> parse_num(Some(GetText(tds[4]))),
         ects  |-> parse_num(Some(GetText(tds[6]))),
         url   |-> IF ~IsNone(href) /\ Truthy(Get(href)) /\ ~HasNetloc(Get(href))
                   THEN Some(UrlJoin(Get(href)))
                   ELSE href]

\* lines 110-124: the loop over the rows of tbody
RECURSIVE CoursesLoop(_, _, _)
CoursesLoop(rows, courses, total_ects) ==
    IF rows = <<>> THEN [courses |-> courses, total_ects |-> total_ects]
    ELSE LET tds == Head(rows)
         IN  IF IsTotalRow(tds)
             THEN CoursesLoop(Tail(rows), courses,
                              parse_num(Some(GetText(tds[Len(tds)]))))
             ELSE IF Len(tds) # 6
             THEN CoursesLoop(Tail(rows), courses, total_ects)
             ELSE CoursesLoop(Tail(rows), Append(courses, CourseOfRow(tds)),
                              total_ects)

\* a document: the course table, if any, and its tbody, if any
parse_courses(html) ==
    IF IsNone(html.table) THEN [courses |-> <<>>, total_ects |-> NumNone]
    ELSE IF IsNone(Get(html.table).tbody)
    THEN [courses |-> <<>>, total_ects |-> NumNone]
    ELSE CoursesLoop(Get(Get(html.table).tbody), <<>>, NumNone)

EmptyCell == Cell(<<>>, None)

\* a row of n cells: first cell t0, last cell tl, the third cell holding anchor a
\* and the fourth the grade
MkCourseRow(n, t0, tl, a) ==
    [i \in 1..n |->
        CASE i = 1 -> Cell(t0, None)
          [] i = n -> Cell(tl, None)
          [] i = 3 -> Cell(<<"n">>, a)
          [] i = 4 -> Cell(<<"7">>, None)
          [] OTHER -> EmptyCell]

CourseRows ==
    {MkCourseRow(n, <<"x">>, <<"5">>, None) : n \in {0, 1, 7}}
    \cup {MkCourseRow(2, t0, tl, None) :
            t0 \in {<<>>, <<" ">>, <<"x">>},
            tl \in {<<"5", ",", "7">>, <<"x">>, <<>>}}
    \cup {MkCourseRow(6, <<>>, tl, a) :
            tl \in {<<"5">>, <<"x">>},
            a \in {None, Some(Anchor(<<"m">>, Some(RelHref)))}}
    \cup {MkCourseRow(6, <<>>, <<"5">>, Some(Anchor(<<"m">>, h))) :
            h \in {None, Some(EmptyHref), Some(AbsHref)}}

CourseDocs ==
    {[table |-> None], [table |-> Some([tbody |-> None])]}
    \cup {[table |-> Some([tbody |-> Some(rows)])] :
            rows \in SeqUpTo(CourseRows, MaxCourseRows)}

----------------------------------------------------------------------------
(* parse_scores *)

\* A component label is a sequence of tokens: the words "max", "Max", "MAX",
\* the reserved labels, the marker phrase, and single characters.
SulLabel == "sul"             \* the reserved total label of line 169
CreditsLabel == "Credits"
ExamMarker == "exam-eligibility marker"   \* the phrase of line 169

NumeralChars == {"5", ".", ","}

\* the first position from j on that holds no whitespace
RECURSIVE SkipSpaces(_, _)
SkipSpaces(c, j) == IF j <= Len(c) /\ c[j] = " " THEN SkipSpaces(c, j + 1) ELSE j

\* the longest run of [\d.,] from j on
RECURSIVE NumeralRun(_, _)
NumeralRun(c, j) ==
    IF j <= Len(c) /\ c[j] \in NumeralChars
    THEN <<c[j]>> \o NumeralRun(c, j + 1)
    ELSE <<>>

\* group(1) of  word\.?\s*([\d.,]+)  matched at position i, for a word of
\* `words`; None when it does not match there.  The optional period is taken
\* first and given back when nothing matches after it.
MatchAt(c, i, words) ==
    IF c[i] \notin words THEN None
    ELSE LET withDot == IF i + 1 <= Len(c) /\ c[i + 1] = "."
                        THEN NumeralRun(c, SkipSpaces(c, i + 2))
                        ELSE <<>>
             without == NumeralRun(c, SkipSpaces(c, i + 1))
         IN  IF withDot # <<>> THEN Some(withDot)
             ELSE IF without # <<>> THEN Some(without)
             ELSE None

\* re.search: the leftmost match
Search(c, words) ==
    LET hits == {i \in 1..Len(c) : ~IsNone(MatchAt(c, i, words))}
    IN  IF hits = {} THEN None
        ELSE MatchAt(c, CHOOSE i \in hits : \A j \in hits : i <= j, words)

FoldedWords == {"max", "Max", "MAX"}

\* the words the pattern of line 173 accepts for its literal "max"
MaxWords == {"max"}

\* lines 172-178
MaxPoints(component) ==
    LET max_match == Search(component, MaxWords)
    IN  IF IsNone(max_match) THEN None
        ELSE LET txt == CommaToPeriod(Get(max_match))
             IN  IF FloatParses(txt) THEN Some(FloatOf(txt)) ELSE None

Contains(s, x) == \E i \in 1..Len(s) : s[i] = x

\* line 169: a summary row
IsSummaryRow(component) ==
    \/ component \in {<<SulLabel>>, <<CreditsLabel>>}
    \/ Contains(component, ExamMarker)

\* lines 163-179
RECURSIVE ScoresLoop(_, _)
ScoresLoop(rows, assessments) ==
    IF rows = <<>> THEN assessments
    ELSE LET tds == Head(rows)
             component == GetText(tds[1])
             score == GetText(tds[2])
         IN  IF Len(tds) # 2 THEN ScoresLoop(Tail(rows), assessments)
             ELSE IF IsSummaryRow(component) THEN ScoresLoop(Tail(rows), assessments)
             ELSE IF component # <<>>
             THEN ScoresLoop(Tail(rows),
                    Append(assessments,
                        [component  |-> component,
                         score      |-> IF score = <<>> THEN None ELSE Some(score),
                         max_points |-> MaxPoints(component)]))
             ELSE ScoresLoop(Tail(rows), assessments)

GroupWord == "Group"
Separator == " - "

\* text.split(" - ", 1)[0]
RECURSIVE BeforeSeparator(_)
BeforeSeparator(text) ==
    IF text = <<>> \/ Head(text) = Separator THEN <<>>
    ELSE <<Head(text)>> \o BeforeSeparator(Tail(text))

NotGroupWord(t) == t # GroupWord

\* lines 155-157
GroupOf(text) ==
    IF Contains(text, GroupWord)
    THEN Some(Strip(SelectSeq(BeforeSeparator(text), NotGroupWord)))
    ELSE None

\* a scores document: the <h4> of .tab_scores (its text, in tokens, and its
\* lector link, if any) and the rows of the table of .tab_scores
parse_scores(html) ==
    [group |-> IF IsNone(html.h4) THEN None ELSE GroupOf(Get(html.h4).text),
     lector |-> IF ~IsNone(html.h4) /\ ~IsNone(Get(html.h4).lector_link)
                THEN Some(Strip(Get(Get(html.h4).lector_link)))
                ELSE None,
     assessments |-> IF IsNone(html.table) THEN <<>>
                     ELSE ScoresLoop(Get(html.table), <<>>)]

LabelTokens == {"max", "Max", "MAX", ".", ",", "5", " "}

ScoreRow(component, score) == <<Cell(component, None), Cell(score, None)>>

ScoreRows ==
    {ScoreRow(c, <<"5">>) : c \in SeqUpTo(LabelTokens, MaxCompLen)}
    \cup {ScoreRow(<<SulLabel>>, <<"5">>), ScoreRow(<<CreditsLabel>>, <<"5">>),
          ScoreRow(<<"max", "5", ExamMarker>>, <<"5">>),
          ScoreRow(<<"MAX", "5">>, <<>>),
          <<Cell(<<"max", "5">>, None)>>,
          <<Cell(<<"max", "5">>, None), EmptyCell, EmptyCell>>}

\* the heading "Group 7 - <lector>", with the lector as a link
Heading(lector) ==
    [text |-> <<GroupWord, " ", "7", Separator>> \o lector,
     lector_link |-> Some(lector)]

ScoreHeadings ==
    {None, Some([text |-> <<"7">>, lector_link |-> None]),
     Some(Heading(<<"a">>)), Some(Heading(<<>>))}

ScoreDocs ==
    {[h4 |-> h, table |-> None] : h \in ScoreHeadings}
    \cup {[h4 |-> None, table |-> Some(rows)] :
            rows \in SeqUpTo(ScoreRows, MaxScoreRows)}

----------------------------------------------------------------------------
(* parse_files *)

\* a <tr> of the files table: the text of its first lector anchor, if any, its
\* class list, and its <td>s
FileTr(lector_link, class, tds) ==
    [lector_link |-> lector_link, class |-> class, tds |-> tds]

\* line 192: a section-header row
IsSectionHeader(tr) == ~IsNone(tr.lector_link) /\ "info" \in tr.class

\* bool(s) of an Optional[str]
TruthyStr(o) == ~IsNone(o) /\ Get(o) # <<>>

\* SkipsRow without the two calls of lower()
SkipsWhenLectorsDifferByCase(my_lector, current_lector) ==
    /\ TruthyStr(my_lector)
    /\ TruthyStr(current_lector)
    /\ Get(current_lector) # Get(my_lector)

\* line 195: the row belongs to another lector's section
SkipsRow(my_lector, current_lector) ==
    /\ TruthyStr(my_lector)
    /\ TruthyStr(current_lector)
    /\ Lower(Get(current_lector)) # Lower(Get(my_lector))

UploadsHref == Url(FALSE, "/uploads/f")
ExternalHref == Url(TRUE, "/video")

\* the href contains '/uploads/'
IsUploads(url) == url.path = "/uploads/f"

\* lines 200-210: the material of a row that has cells
MaterialOf(tds) ==
    LET a1 == tds[1].a
        file_link == IF ~IsNone(a1) /\ ~IsNone(Get(a1).href)
                        /\ IsUploads(Get(Get(a1).href))
                     THEN a1 ELSE None
        url == IF ~IsNone(file_link) /\ Truthy(Get(Get(file_link).href))
               THEN Some(UrlJoin(Get(Get(file_link).href))) ELSE None
        ext_link == IF Len(tds) > 1 THEN tds[2].a ELSE None
        ext_url == IF IsNone(ext_link) THEN None
                   ELSE IF Truthy(Get(Get(ext_link).href))
                   THEN Some(UrlJoin(Get(Get(ext_link).href)))
                   ELSE Get(ext_link).href
    IN  [name |-> GetText(tds[1]), url |-> url, external_url |-> ext_url]

\* lines 189-210: the loop over the rows of #files
RECURSIVE FilesLoop(_, _, _, _)
FilesLoop(rows, my_lector, current_lector, materials) ==
    IF rows = <<>> THEN materials
    ELSE LET tr == Head(rows)
         IN  IF IsSectionHeader(tr)
             THEN FilesLoop(Tail(rows), my_lector,
                            Some(Strip(Get(tr.lector_link))), materials)
             ELSE IF SkipsRow(my_lector, current_lector)
             THEN FilesLoop(Tail(rows), my_lector, current_lector, materials)
             ELSE IF tr.tds = <<>>
             THEN FilesLoop(Tail(rows), my_lector, current_lector, materials)
             ELSE IF MaterialOf(tr.tds).name # <<>>
             THEN FilesLoop(Tail(rows), my_lector, current_lector,
                            Append(materials, MaterialOf(tr.tds)))
             ELSE FilesLoop(Tail(rows), my_lector, current_lector, materials)

\* a files document: the rows of #files, if the table is there
parse_files(html, my_lector) ==
    IF IsNone(html.files) THEN <<>>
    ELSE FilesLoop(Get(html.files), my_lector, None, <<>>)

HeaderRow(lector) ==
    FileTr(Some(lector), {"info"}, <<Cell(<<>>, Some(Anchor(lector, Some(Url(FALSE, "/lector/1")))))>>)

NamedRow(name) ==
    FileTr(None, {}, <<Cell(name, Some(Anchor(<<>>, Some(UploadsHref)))),
                       Cell(<<>>, Some(Anchor(<<"v">>, Some(ExternalHref))))>>)

FileRows ==
    {HeaderRow(l) : l \in {<<>>, <<"a">>, <<"b">>}}
    \cup {NamedRow(<<"f">>),
          \* a row whose first cell is empty
          NamedRow(<<" ">>),
          \* a row of <th> only
          FileTr(None, {}, <<>>),
          \* a lector anchor in a row that is not styled "info"
          FileTr(Some(<<"b">>), {}, <<Cell(<<>>, Some(Anchor(<<"b">>, Some(Url(FALSE, "/lector/1")))))>>),
          \* an "info" row without a lector anchor
          FileTr(None, {"info"}, <<Cell(<<"g">>, None)>>)}

FileDocs ==
    {[files |-> None]}
    \cup {[files |-> Some(rows)] : rows \in SeqUpTo(FileRows, MaxFileRows)}

Lectors == {None, Some(<<>>), Some(<<"a">>), Some(<<"A">>)}

----------------------------------------------------------------------------
(* parse_groups *)

\* a <tr> of the groups table: its class list and its text
GroupTr(class, text) == [class |-> class, text |-> text]

NotFound == "Not found"

\* lines 219-224
RECURSIVE GroupsLoop(_, _)
GroupsLoop(rows, groups) ==
    IF rows = <<>> THEN groups
    ELSE LET tr == Head(rows)
             text == Strip(tr.text)
         IN  IF "warning" \in tr.class THEN GroupsLoop(Tail(rows), groups)
             ELSE IF text # <<>> /\ ~Contains(text, NotFound)
             THEN GroupsLoop(Tail(rows), Append(groups, text))
             ELSE GroupsLoop(Tail(rows), groups)

parse_groups(html) ==
    IF IsNone(html.groups) THEN [groups |-> <<>>]
    ELSE [groups |-> GroupsLoop(Get(html.groups), <<>>)]

----------------------------------------------------------------------------
(* The portal: courses, URLs and the pages it serves. *)

\* course["name"] and course.get("url") of the three courses of the model:
\* two whose names differ only in a character the folder name drops, and
\* one without a URL
CourseName(c) == CASE c = 1 -> <<"C">> [] c = 2 -> <<"C", "+">> [] OTHER -> <<"G">>
CourseUrl(c) == IF c \in {1, 2} THEN Some(c) ELSE None

Courses == {1, 2, 3}

\* c.isalnum() or c in (" ", "-", "_")
IsSafeChar(c) == c \in {"C", "G", "7", " ", "-", "_"}

\* line 241
SafeName(course_name) == Strip(SelectSeq(course_name, IsSafeChar))

\* the keys extract_course_urls can give, lines 135-146.  The "syllabus" key
\* is left out: the loop treats it as it treats "groups", and nothing reads
\* its file.
HtmlTabs == {"groups", "scores", "files"}
TabKinds == HtmlTabs \cup {"syllabus_file"}

\* dict order of extract_course_urls: the tab keys in the order of their first
\* link in #course_tabs, then syllabus_file; every choice and order of keys
LandingPages ==
    LET tabs == {u \in SeqUpTo(HtmlTabs, Cardinality(HtmlTabs)) :
                    \A i, j \in 1..Len(u) : i # j => u[i] # u[j]}
    IN  tabs \cup {Append(u, "syllabus_file") : u \in tabs}

\* what a fetch of `kind` of course c returned during call number run
Page(c, kind, run) == [course |-> c, kind |-> kind, run |-> run]

\* the lector the portal names on the scores page of a course
LectorOf(c) == IF c = 1 THEN <<"a">> ELSE <<"b">>

\* the documents behind the pages
ScoresHtml(page) ==
    [h4 |-> Some(Heading(LectorOf(page.course))),
     table |-> Some(<<ScoreRow(<<"max", "5">>, <<"5">>)>>)]

FilesHtml(page) ==
    [files |-> Some(<<NamedRow(<<"e">>), HeaderRow(<<"a">>), NamedRow(<<"f">>),
                      HeaderRow(<<"b">>), NamedRow(<<"g">>)>>)]

GroupsHtml(page) ==
    [groups |-> Some(<<GroupTr({"warning"}, <<"w">>), GroupTr({}, <<"g">>),
                       GroupTr({}, <<NotFound>>)>>)]

----------------------------------------------------------------------------
(* The on-disk store, fetch_course_pages and parse_course_data_from_folder *)

\* os.path.join(HTML_DIR, safe_name, file) and os.path.join(COURSES_DIR, ...)
Path(dir, safe_name, file) == <<dir, safe_name, file>>

Folders == {SafeName(CourseName(c)) : c \in Courses}

Paths ==
    {Path("html", f, n) : f \in Folders,
        n \in {"course.html", "syllabus.html", "groups.html", "scores.html",
               "files.html", "syllabus_file.pdf"}}
    \cup {Path("courses", f, "syllabus.pdf") : f \in Folders}

html_folder(c) == SafeName(CourseName(c))

\* line 255
path_html(c, name) ==
    Path("html", html_folder(c),
         CASE name = "syllabus" -> "syllabus.html"
           [] name = "groups" -> "groups.html"
           [] name = "scores" -> "scores.html"
           [] name = "files" -> "files.html"
           [] OTHER -> "syllabus_file.html")

\* line 257
out_pdf(c) == Path("courses", html_folder(c), "syllabus.pdf")

\* os.path.exists
Exists(path) == ~IsNone(disk[path])

NoOutcome == [what |-> "none", page |-> None]
NoData == [scores |-> None, materials |-> None, groups |-> None]

ParsersIdle ==
    /\ num_in = Idle /\ num_out = Idle
    /\ courses_in = Idle /\ courses_out = Idle
    /\ scores_in = Idle /\ scores_out = Idle
    /\ files_in = Idle /\ files_out = Idle

\* Calls are made one after the other, as a driver that awaits each call
\* does: cur is the course of the call in progress or last made.
Init ==
    /\ ParsersIdle
    /\ disk = [path \in Paths |-> None]
    /\ cur = 1
    /\ pc = "idle"
    /\ urls = <<>>
    /\ idx = 0
    /\ data = NoData
    /\ runs = 0
    /\ outcome = [k \in TabKinds |-> NoOutcome]
    /\ fetched = [k \in TabKinds |-> 0]

parserVars == <<num_in, num_out, courses_in, courses_out, scores_in,
                scores_out, files_in, files_out>>

\* no call is in progress
AtRest == pc \in {"idle", "raised", "done"}

\* lines 238-239: a course without a URL
FetchNoUrl(c) ==
    /\ AtRest /\ runs < MaxRuns
    /\ IsNone(CourseUrl(c))
    /\ runs' = runs + 1
    /\ cur' = c
    /\ pc' = "idle"
    /\ urls' = <<>>
    /\ idx' = 0
    /\ data' = NoData
    /\ outcome' = [k \in TabKinds |-> NoOutcome]
    /\ fetched' = [k \in TabKinds |-> 0]
    /\ UNCHANGED <<parserVars, disk>>

\* lines 240-248, up to the await of the landing page
StartFetch(c) ==
    /\ AtRest /\ runs < MaxRuns
    /\ ~IsNone(CourseUrl(c))
    /\ runs' = runs + 1
    /\ cur' = c
    /\ pc' = "landing"
    /\ urls' = <<>>
    /\ idx' = 0
    /\ data' = NoData
    /\ outcome' = [k \in TabKinds |-> NoOutcome]
    /\ fetched' = [k \in TabKinds |-> 0]
    /\ UNCHANGED <<parserVars, disk>>

\* lines 248-252: the landing page arrives, is written and its tabs extracted
LandingFetched ==
    /\ pc = "landing"
    /\ urls' \in LandingPages
    /\ disk' = [disk EXCEPT ![Path("html", html_folder(cur), "course.html")] =
                    Some(Page(cur, "course", runs))]
    /\ idx' = 1
    /\ pc' = "loop"
    /\ UNCHANGED <<parserVars, cur, data, runs, outcome, fetched>>

\* line 248: fetch_text_playwright raises; nothing catches it
LandingFailed ==
    /\ pc = "landing"
    /\ pc' = "raised"
    /\ UNCHANGED <<parserVars, disk, cur, urls, idx, data, runs, outcome, fetched>>

\* the file whose existence decides whether a tab is fetched, lines 258 and 266
GuardPath(c, name) == IF name = "syllabus_file" THEN out_pdf(c) ELSE path_html(c, name)

\* lines 254-258, 266: the next item of urls; a tab whose file exists is passed over
TabCheck ==
    /\ pc = "loop" /\ idx <= Len(urls)
    /\ LET name == urls[idx]
       IN  IF Exists(GuardPath(cur, name))
           THEN /\ outcome' = [outcome EXCEPT ![name] =
                                [what |-> "skipped", page |-> disk[GuardPath(cur, name)]]]
                /\ idx' = idx + 1
                /\ pc' = pc
           ELSE /\ pc' = "fetching"
                /\ UNCHANGED <<outcome, idx>>
    /\ UNCHANGED <<parserVars, disk, cur, urls, data, runs, fetched>>

\* lines 260-262, 268-270: the tab arrives and is written
TabFetched ==
    /\ pc = "fetching"
    /\ LET name == urls[idx]
           page == Page(cur, name, runs)
       IN  /\ disk' = IF name = "syllabus_file"
                      THEN [disk EXCEPT
                              ![Path("html", html_folder(cur), "syllabus_file.pdf")] = Some(page),
                              ![out_pdf(cur)] = Some(page)]
                      ELSE [disk EXCEPT ![path_html(cur, name)] = Some(page)]
           /\ outcome' = [outcome EXCEPT ![name] = [what |-> "stored", page |-> Some(page)]]
           /\ fetched' = [fetched EXCEPT ![name] = @ + 1]
    /\ idx' = idx + 1
    /\ pc' = "loop"
    /\ UNCHANGED <<parserVars, cur, urls, data, runs>>

\* TabFailed without the try of lines 259 and 267: the exception leaves the loop
TabFailureEscapes ==
    /\ pc = "fetching"
    /\ fetched' = [fetched EXCEPT ![urls[idx]] = @ + 1]
    /\ pc' = "raised"
    /\ UNCHANGED <<parserVars, disk, cur, urls, idx, data, runs, outcome>>

\* lines 263-264, 271-272: the fetch raises, the except clause prints and the
\* loop goes on
TabFailed ==
    /\ pc = "fetching"
    /\ outcome' = [outcome EXCEPT ![urls[idx]] = [what |-> "failed", page |-> None]]
    /\ fetched' = [fetched EXCEPT ![urls[idx]] = @ + 1]
    /\ idx' = idx + 1
    /\ pc' = "loop"
    /\ UNCHANGED <<parserVars, disk, cur, urls, data, runs>>

\* line 274
ReturnPages ==
    /\ pc = "loop" /\ idx > Len(urls)
    /\ pc' = "returned"
    /\ UNCHANGED <<parserVars, disk, cur, urls, idx, data, runs, outcome, fetched>>

\* lines 279-283, on the html_folder the call returned
ReadScores ==
    /\ pc = "returned"
    /\ LET scores_path == path_html(cur, "scores")
       IN  data' = [data EXCEPT !.scores =
                IF Exists(scores_path)
                THEN Some([value |-> parse_scores(ScoresHtml(Get(disk[scores_path]))),
                           page |-> Get(disk[scores_path])])
                ELSE None]
    /\ pc' = "scores read"
    /\ UNCHANGED <<parserVars, disk, cur, urls, idx, runs, outcome, fetched>>

\* line 284
MyLector(d) == IF IsNone(d.scores) THEN None ELSE Get(d.scores).value.lector

\* lines 284-289
ReadFiles ==
    /\ pc = "scores read"
    /\ LET files_path == path_html(cur, "files")
           my_lector == MyLector(data)
       IN  data' = [data EXCEPT !.materials =
                IF Exists(files_path)
                THEN Some([value |-> parse_files(FilesHtml(Get(disk[files_path])), my_lector),
                           page |-> Get(disk[files_path]),
                           my_lector |-> my_lector])
                ELSE None]
    /\ pc' = "files read"
    /\ UNCHANGED <<parserVars, disk, cur, urls, idx, runs, outcome, fetched>>

\* lines 290-295
ReadGroups ==
    /\ pc = "files read"
    /\ LET groups_path == path_html(cur, "groups")
       IN  data' = [data EXCEPT !.groups =
                IF Exists(groups_path)
                THEN Some([value |-> parse_groups(GroupsHtml(Get(disk[groups_path]))),
                           page |-> Get(disk[groups_path])])
                ELSE None]
    /\ pc' = "done"
    /\ UNCHANGED <<parserVars, disk, cur, urls, idx, runs, outcome, fetched>>

Next ==
    \/ \E c \in Courses : FetchNoUrl(c)
    \/ \E c \in Courses : StartFetch(c)
    \/ LandingFetched
    \/ LandingFailed
    \/ TabCheck
    \/ TabFetched
    \/ TabFailed
    \/ ReturnPages
    \/ ReadScores
    \/ ReadFiles
    \/ ReadGroups

Spec == Init /\ [][Next]_vars

----------------------------------------------------------------------------
(* The parsers as one-call state machines: Init draws the argument, the    *)
(* action makes the call.  A result is None until the call has been made.   *)

StoreIdle ==
    /\ disk = Idle /\ cur = Idle /\ pc = Idle /\ urls = Idle /\ idx = Idle
    /\ data = Idle /\ runs = Idle /\ outcome = Idle /\ fetched = Idle

storeVars == <<disk, cur, pc, urls, idx, data, runs, outcome, fetched>>

InitNum ==
    /\ num_in \in NumInputs /\ num_out = None
    /\ courses_in = Idle /\ courses_out = Idle
    /\ scores_in = Idle /\ scores_out = Idle
    /\ files_in = Idle /\ files_out = Idle
    /\ StoreIdle

CallParseNum ==
    /\ IsNone(num_out)
    /\ num_out' = Some(parse_num(num_in))
    /\ UNCHANGED <<num_in, courses_in, courses_out, scores_in, scores_out,
                   files_in, files_out, storeVars>>

SpecNum == InitNum /\ [][CallParseNum]_vars

InitCourses ==
    /\ courses_in \in CourseDocs /\ courses_out = None
    /\ num_in = Idle /\ num_out = Idle
    /\ scores_in = Idle /\ scores_out = Idle
    /\ files_in = Idle /\ files_out = Idle
    /\ StoreIdle

CallParseCourses ==
    /\ IsNone(courses_out)
    /\ courses_out' = Some(parse_courses(courses_in))
    /\ UNCHANGED <<num_in, num_out, courses_in, scores_in, scores_out,
                   files_in, files_out, storeVars>>

SpecCourses == InitCourses /\ [][CallParseCourses]_vars

InitScores ==
    /\ scores_in \in ScoreDocs /\ scores_out = None
    /\ num_in = Idle /\ num_out = Idle
    /\ courses_in = Idle /\ courses_out = Idle
    /\ files_in = Idle /\ files_out = Idle
    /\ StoreIdle

CallParseScores ==
    /\ IsNone(scores_out)
    /\ scores_out' = Some(parse_scores(scores_in))
    /\ UNCHANGED <<num_in, num_out, courses_in, courses_out, scores_in,
                   files_in, files_out, storeVars>>

SpecScores == InitScores /\ [][CallParseScores]_vars

InitFiles ==
    /\ files_in \in [html : FileDocs, my_lector : Lectors]
    /\ files_out = None
    /\ num_in = Idle /\ num_out = Idle
    /\ courses_in = Idle /\ courses_out = Idle
    /\ scores_in = Idle /\ scores_out = Idle
    /\ StoreIdle

CallParseFiles ==
    /\ IsNone(files_out)
    /\ files_out' = Some(parse_files(files_in.html, files_in.my_lector))
    /\ UNCHANGED <<num_in, num_out, courses_in, courses_out, scores_in,
                   scores_out, files_in, storeVars>>

SpecFiles == InitFiles /\ [][CallParseFiles]_vars

----------------------------------------------------------------------------
(* Claims about the parsers. *)

\* the k-th smallest element of a set of row numbers
Kth(S, k) == CHOOSE i \in S : Cardinality({j \in S : j <= i}) = k

Blank(text) == \A j \in 1..Len(text) : text[j] = " "

\* C9: parse_num returns None for None and for empty or whitespace-only text;
\* for any other text it returns the float of the trimmed, comma-to-period
\* text when that parses, and that trimmed text otherwise.
C9_ParseNumContract ==
    ~IsNone(num_out) =>
        IF IsNone(num_in) \/ Blank(Get(num_in))
        THEN Get(num_out).tag = "None"
        ELSE LET txt == CommaToPeriod(Strip(Get(num_in)))
             IN  IF FloatParses(txt)
                 THEN Get(num_out).tag = "float" /\ Get(num_out).num = FloatOf(txt)
                 ELSE Get(num_out).tag = "str" /\ Get(num_out).str = txt

\* C7: in a course table with a body, the courses are the six-cell rows in
\* document order, one each; total_ects is parse_num of the second cell of
\* the last two-cell row whose first cell is blank, and None without such a
\* row; no other row contributes anything.
C7_RowClassification ==
    (/\ ~IsNone(courses_out)
     /\ ~IsNone(courses_in.table)
     /\ ~IsNone(Get(courses_in.table).tbody)) =>
        LET rows == Get(Get(courses_in.table).tbody)
            six == {i \in 1..Len(rows) : Len(rows[i]) = 6}
            agg == {i \in 1..Len(rows) :
                        Len(rows[i]) = 2 /\ Blank(rows[i][1].text)}
            last == CHOOSE i \in agg : \A j \in agg : j <= i
        IN  /\ Len(Get(courses_out).courses) = Cardinality(six)
            /\ \A k \in 1..Cardinality(six) :
                    Get(courses_out).courses[k] = CourseOfRow(rows[Kth(six, k)])
            /\ Get(courses_out).total_ects =
                    IF agg = {} THEN NumNone
                    ELSE parse_num(Some(Strip(rows[last][2].text)))

\* C7 witness: two total rows with different second cells, the last one
\* giving total_ects, next to a six-cell row that became the one course.
C7_Witness ==
    /\ ~IsNone(courses_out)
    /\ ~IsNone(courses_in.table)
    /\ ~IsNone(Get(courses_in.table).tbody)
    /\ LET rows == Get(Get(courses_in.table).tbody)
       IN  /\ Len(rows) = 3
           /\ Len(rows[1]) = 2 /\ Blank(rows[1][1].text)
           /\ Len(rows[2]) = 6
           /\ Len(rows[3]) = 2 /\ Blank(rows[3][1].text)
           /\ rows[1][2].text # rows[3][2].text
           /\ Get(courses_out).total_ects.tag = "str"
           /\ Len(Get(courses_out).courses) = 1

\* the max_points a case-insensitive search for "max" gives a label
FoldedMaxPoints(component) ==
    LET m == Search(component, FoldedWords)
    IN  IF IsNone(m) THEN None
        ELSE IF FloatParses(CommaToPeriod(Get(m)))
        THEN Some(FloatOf(CommaToPeriod(Get(m))))
        ELSE None

\* C8: every retained row keeps its place, and its max_points is the float
\* after "max" in any letter case, absent without a match or with a malformed
\* numeral.
C8_MaxPointsAnyCase ==
    (~IsNone(scores_out) /\ ~IsNone(scores_in.table)) =>
        LET rows == Get(scores_in.table)
            kept == {i \in 1..Len(rows) :
                        /\ Len(rows[i]) = 2
                        /\ ~Blank(rows[i][1].text)
                        /\ ~IsSummaryRow(Strip(rows[i][1].text))}
        IN  /\ Len(Get(scores_out).assessments) = Cardinality(kept)
            /\ \A k \in 1..Cardinality(kept) :
                  LET a == Get(scores_out).assessments[k]
                  IN  /\ a.component = Strip(rows[Kth(kept, k)][1].text)
                      /\ a.max_points = FoldedMaxPoints(a.component)

\* the rows before row i that are section headers
HeadersBefore(rows, i) == {j \in 1..(i - 1) : IsSectionHeader(rows[j])}

\* the lector text of the last section header before row i
LastLector(rows, i) ==
    LET h == HeadersBefore(rows, i)
    IN  Strip(Get(rows[CHOOSE j \in h : \A m \in h : m <= j].lector_link))

\* a row that is no section header and has a first cell with text
NamedMaterial(tr) ==
    ~IsSectionHeader(tr) /\ tr.tds # <<>> /\ ~Blank(GetText(tr.tds[1]))

\* the output that emits exactly the rows of `emit`, in document order
EmitsExactly(out, rows, emit) ==
    /\ Len(out) = Cardinality(emit)
    /\ \A k \in 1..Cardinality(emit) : out[k] = MaterialOf(rows[Kth(emit, k)].tds)

\* C1 as stated: with my_lector given, a named material row is emitted iff no
\* section header came before it or the last one's lector equals my_lector
\* ignoring case; headers are never emitted; document order is kept.
C1_Original ==
    (/\ ~IsNone(files_out)
     /\ ~IsNone(files_in.html.files)
     /\ ~IsNone(files_in.my_lector)) =>
        LET rows == Get(files_in.html.files)
            mine == Lower(Get(files_in.my_lector))
        IN  EmitsExactly(Get(files_out), rows,
                {i \in 1..Len(rows) :
                    /\ NamedMaterial(rows[i])
                    /\ \/ HeadersBefore(rows, i) = {}
                       \/ Lower(LastLector(rows, i)) = mine})

\* C1 amended: with my_lector given, a named material row is emitted iff
\* my_lector is the empty string, or no section header came before it, or the
\* last one's lector text is empty, or it equals my_lector ignoring case;
\* headers are never emitted; document order is kept.
C1_Amended ==
    (/\ ~IsNone(files_out)
     /\ ~IsNone(files_in.html.files)
     /\ ~IsNone(files_in.my_lector)) =>
        LET rows == Get(files_in.html.files)
            mine == Lower(Get(files_in.my_lector))
        IN  EmitsExactly(Get(files_out), rows,
                {i \in 1..Len(rows) :
                    /\ NamedMaterial(rows[i])
                    /\ \/ mine = <<>>
                       \/ HeadersBefore(rows, i) = {}
                       \/ LastLector(rows, i) = <<>>
                       \/ Lower(LastLector(rows, i)) = mine})

\* C1 witness: my_lector "a"; a section header without lector text whose
\* material is emitted, then a section of "b" whose material is not.
C1_Witness ==
    /\ ~IsNone(files_out)
    /\ files_in.my_lector = Some(<<"a">>)
    /\ ~IsNone(files_in.html.files)
    /\ LET rows == Get(files_in.html.files)
       IN  /\ Len(rows) = 4
           /\ rows[1] = HeaderRow(<<>>)
           /\ NamedMaterial(rows[2])
           /\ rows[3] = HeaderRow(<<"b">>)
           /\ NamedMaterial(rows[4])
           /\ Get(files_out) = <<MaterialOf(rows[2].tds)>>

----------------------------------------------------------------------------
(* Claims about fetch_course_pages and parse_course_data_from_folder. *)

Returned == pc \in {"returned", "scores read", "files read", "done"}

Discovered(k) == \E i \in 1..Len(urls) : urls[i] = k

\* C2: a failed tab fetch is caught and the loop goes on: nothing but the
\* landing-page fetch makes the call raise, every key before the loop's
\* position has been dealt with, and when the call has returned every
\* discovered key was either fetched once and stored, or passed over because
\* its file was already there, or fetched once and failed.
C2_TabFailuresIsolated ==
    /\ pc = "raised" => idx = 0
    /\ pc \in {"loop", "fetching"} =>
          \A i \in 1..(idx - 1) : outcome[urls[i]].what # "none"
    /\ Returned =>
          \A i \in 1..Len(urls) :
              LET k == urls[i]
              IN  \/ /\ outcome[k].what = "stored"
                     /\ fetched[k] = 1
                     /\ Exists(GuardPath(cur, k))
                  \/ /\ outcome[k].what = "skipped"
                     /\ fetched[k] = 0
                     /\ Exists(GuardPath(cur, k))
                  \/ /\ outcome[k].what = "failed"
                     /\ fetched[k] = 1

\* C2 witness: a call that returned after its first tab failed, its second
\* was already stored and its third was fetched and stored.
C2_Witness ==
    /\ pc = "returned"
    /\ Len(urls) = 3
    /\ outcome[urls[1]].what = "failed"
    /\ outcome[urls[2]].what = "skipped"
    /\ outcome[urls[3]].what = "stored"

\* C3: a scrape of a course with a URL never ends in an exception.
C3_ScrapeNeverRaises == pc # "raised"

\* C4: a call that returned has fetched every tab URL its landing page
\* exposed exactly once, and no other, whatever the store held when it began.
C4_EachTabFetchedOnce ==
    Returned =>
        \A k \in HtmlTabs : fetched[k] = IF Discovered(k) THEN 1 ELSE 0

\* the parts of the record that were read from a stored page
Parts ==
    {<<"scores", data.scores>>, <<"files", data.materials>>,
     <<"groups", data.groups>>}

\* C5: the scores, materials and groups of the record of a call come from
\* pages fetched during that call, and only from tabs its landing page
\* exposed.
C5_FullRebuild ==
    pc = "done" =>
        \A part \in Parts :
            ~IsNone(part[2]) =>
                /\ Get(part[2]).page.run = runs
                /\ Discovered(part[1])

\* C6: the filter given to parse_files is the lector of the scores page of
\* the course at hand; without a scores URL, or with a failed scores fetch,
\* parse_files gets no filter and emits every named material row.
C6_LectorFilter ==
    (pc = "done" /\ ~IsNone(data.materials)) =>
        LET m == Get(data.materials)
        IN  IF Discovered("scores") /\ outcome["scores"].what # "failed"
            THEN /\ ~IsNone(data.scores)
                 /\ Get(data.scores).page.course = cur
                 /\ m.my_lector = parse_scores(ScoresHtml(Get(data.scores).page)).lector
            ELSE /\ m.my_lector = None
                 /\ LET rows == Get(FilesHtml(m.page).files)
                    IN  EmitsExactly(m.value, rows,
                            {i \in 1..Len(rows) : NamedMaterial(rows[i])})

\* C10: no tab of a course is passed over because of a page of another
\* course, and no part of a course's record comes from a page of another
\* course.
C10_CoursesIsolated ==
    /\ \A k \in HtmlTabs :
          outcome[k].what = "skipped" => Get(outcome[k].page).course = cur
    /\ pc = "done" =>
          \A part \in Parts :
              ~IsNone(part[2]) => Get(part[2]).page.course = cur

====
